---- MODULE Spec2Model ----
(***************************************************************************)
(* A model of src/rss.py of the EDGAR tool: the feed transformer           *)
(* parse_rss_feed_data (a generator, one step per loop iteration), and the *)
(* identifier resolver _fetch_company_tickers as fetch_rss_feed calls it.  *)
(*                                                                         *)
(* Python values.  A str is a sequence of one-character strings, so that   *)
(* lstrip, join and the truth value of "" are computed; None is the        *)
(* one-element sequence <<"<None>">>, which no str equals.                 *)
(***************************************************************************)
EXTENDS Integers, Sequences, FiniteSets, TLC

VARIABLES
  tickers,              \* parse_rss_feed_data: the filter list (list of str)
  tickers_mapping,      \* parse_rss_feed_data: dict, trimmed CIK -> list of tickers
  files_urls_as_text,   \* parse_rss_feed_data: the flag
  response,             \* the feed document: the <item> elements of rss/channel
  items,                \* what the for loop of line 82 iterates over
  idx,                  \* position of the loop in items
  records,              \* the parsed lines yielded so far
  origin,               \* history: for each yielded line, the position in items it came from
  pc,                   \* "start" | "loop" | "done" | "raised"
  cache_exists,         \* RSS_COMPANY_TICKERS_FILE_PATH.exists()
  cache_content,        \* the JSON object stored in that file
  mapping,              \* _fetch_company_tickers: response.json() of the last download
  cik_to_company_mapping, \* _fetch_company_tickers: the grouping built from it
  cik_to_ticker_mapping,  \* fetch_rss_feed: what json.load returned
  last                  \* history of the last fetch_rss_feed invocation

vars == <<tickers, tickers_mapping, files_urls_as_text, response, items, idx,
          records, origin, pc, cache_exists, cache_content, mapping,
          cik_to_company_mapping, cik_to_ticker_mapping, last>>

parseVars == <<tickers, tickers_mapping, files_urls_as_text, response, items,
               idx, records, origin, pc>>

fetchVars == <<cache_exists, cache_content, mapping, cik_to_company_mapping,
               cik_to_ticker_mapping, last>>

-----------------------------------------------------------------------------
(* Bounds *)

\* items in a feed document
MaxFeed == 2
\* tickers in the caller's filter list
MaxFilter == 3
\* tickers the mapping holds for one CIK
MaxTickersPerCik == 2
\* <edgar:xbrlFile> elements of one item
MaxFiles == 2
\* companies in the registry dataset of one download
MaxDataset == 3

-----------------------------------------------------------------------------
(* Python strings *)

None == <<"<None>">>

Str(s) == s # None

\* bool(x) of a str or None: None and "" are false
Truthy(s) == s # None /\ s # <<>>

\* a or b
Or(a, b) == IF Truthy(a) THEN a ELSE b

RECURSIVE lstrip(_, _)
\* s.lstrip(c)
lstrip(s, c) ==
  IF s # <<>> /\ Head(s) = c THEN lstrip(Tail(s), c) ELSE s

RECURSIVE join(_, _)
\* sep.join(l), l a list of str
join(sep, l) ==
  IF l = <<>> THEN <<>>
  ELSE IF Len(l) = 1 THEN l[1]
  ELSE l[1] \o sep \o join(sep, Tail(l))

\* x in l, l a list
In(x, l) == \E k \in 1..Len(l) : l[k] = x

\* {sequences over S of length lo..hi}
SeqsOf(S, lo, hi) == UNION {[1..n -> S] : n \in lo..hi}

UNKNOWN_TICKER_PLACEHOLDER == <<"U", "N", "K", "N", "O", "W", "N">>

Digit == <<"0", "1", "2", "3", "4", "5", "6", "7", "8", "9">>

\* ticker strings: two plain ones, one spelled like the placeholder, and one
\* with the "/" that line 102 joins with
TickerA == <<"A">>
TickerB == <<"B">>
TickerAslashB == <<"A", "/", "B">>
PlainTickers == {TickerA, TickerB}
MappingTickers == PlainTickers \cup {UNKNOWN_TICKER_PLACEHOLDER}
FilterTickers == MappingTickers \cup {TickerAslashB}

\* the same with the empty string for a ticker
TickerEmpty == <<>>
TickerSlashA == <<"/", "A">>
MappingTickersWithEmpty == {TickerEmpty, TickerA}
FilterTickersWithEmpty == {TickerEmpty, TickerA, TickerSlashA}

-----------------------------------------------------------------------------
(* The feed document and what xmltodict.parse makes of it *)

\* children of <item> read with i.get(...), in document order
TopKeyOrder == <<"title", "link", "description", "pubDate">>

TopKeys == {TopKeyOrder[k] : k \in 1..Len(TopKeyOrder)}

\* children of <edgar:xbrlFiling> read with safe_get, edgar:cikNumber apart
NestedKeys ==
  {"edgar:companyName", "edgar:formType", "edgar:filingDate",
   "edgar:fileNumber", "edgar:accessionNumber", "edgar:acceptanceDatetime",
   "edgar:period", "edgar:assistantDirector", "edgar:assignedSic",
   "edgar:fiscalYearEnd"}

\* the text of a child element that is present
FieldValue(key) == <<key>>

\* An <item> element: the children it has.  top and nested are the sets of
\* children present, cik the text of edgar:cikNumber (None: no such child),
\* files the edgar:url of each <edgar:xbrlFile>, in document order.
Item(top, nested, cik, files) ==
  [top |-> top, nested |-> nested, cik |-> cik, files |-> files]

\* <edgar:xbrlFiling> is there when it has a child
HasFiling(it) == it.cik # None \/ it.nested # {} \/ it.files # <<>>

\* the keys of the dict xmltodict makes of an <item>, in document order
KeysOf(it) ==
  SelectSeq(TopKeyOrder, LAMBDA k : k \in it.top)
    \o (IF HasFiling(it) THEN <<"edgar:xbrlFiling">> ELSE <<>>)

NoItem == Item({}, {}, None, <<>>)

\* A value the loop variable i takes: a dict (an <item> with children), a
\* str (a key of a dict that is iterated over), or None (an empty <item>).
PyDict(it) == [type |-> "dict", item |-> it, key |-> ""]
PyStr(k) == [type |-> "str", item |-> NoItem, key |-> k]
PyNone == [type |-> "none", item |-> NoItem, key |-> ""]

\* xmltodict's value for one element: None when it has no child
ElementValue(it) == IF KeysOf(it) = <<>> THEN PyNone ELSE PyDict(it)

\* xmltodict.parse(...)["rss"]["channel"]["item"] as the for loop sees it:
\* a tag that occurs once is the element's value itself, not a list, and
\* iterating over a dict yields its keys; a tag that repeats is a list.
\* (No <item>: KeyError; one empty <item>: None, not iterable.)
xmltodict_items(doc) ==
  IF Len(doc) = 0 THEN [raises |-> TRUE, seq |-> <<>>]
  ELSE IF Len(doc) = 1 THEN
    IF KeysOf(doc[1]) = <<>> THEN [raises |-> TRUE, seq |-> <<>>]
    ELSE [raises |-> FALSE,
          seq |-> [k \in 1..Len(KeysOf(doc[1])) |-> PyStr(KeysOf(doc[1])[k])]]
  ELSE [raises |-> FALSE, seq |-> [k \in 1..Len(doc) |-> ElementValue(doc[k])]]

\* safe_get(i, "edgar:xbrlFiling", key): None when a key of the path is missing
\* or i is no dict
safe_get(i, key) ==
  IF i.type # "dict" THEN None
  ELSE IF key = "edgar:cikNumber" THEN i.item.cik
  ELSE IF key \in i.item.nested THEN FieldValue(key)
  ELSE None

\* A Python value of the xbrl_files field: val holds the descriptors' URLs
\* (list: one per descriptor; dict: the one descriptor's), the text (str), or
\* nothing (None).
FilesNone == [type |-> "none", val |-> <<>>]
FilesDict(u) == [type |-> "dict", val |-> <<u>>]
FilesList(us) == [type |-> "list", val |-> us]
FilesStr(s) == [type |-> "str", val |-> <<s>>]

\* safe_get(i, "edgar:xbrlFiling", "edgar:xbrlFiles", "edgar:xbrlFile"): one
\* <edgar:xbrlFile> is a dict, several are a list of dicts
safe_get_files(i) ==
  IF i.type # "dict" \/ i.item.files = <<>> THEN FilesNone
  ELSE IF Len(i.item.files) = 1 THEN FilesDict(i.item.files[1])
  ELSE FilesList(i.item.files)

\* unpack_singleton_list(l), l a list of str: the one element of a singleton,
\* else the elements joined with newlines
unpack_singleton_list(l) ==
  IF Len(l) = 1 THEN FilesStr(l[1]) ELSE FilesStr(join(<<"\n">>, l))

-----------------------------------------------------------------------------
(* parse_rss_feed_data: one iteration of the loop over the items *)

\* cik.lstrip("0") if isinstance(cik, str) else None
trimmed_cik(cik) == IF Str(cik) THEN lstrip(cik, "0") ELSE None

\* tickers_mapping.get(trimmed_cik, []): the keys of the mapping are strs
matching_tickers_for_item_cik(m, trimmed) ==
  IF trimmed \in DOMAIN m THEN m[trimmed] ELSE <<>>

\* next((t for t in tickers if t in matching), None)
first_match(ts, matching) ==
  IF \E k \in 1..Len(ts) : In(ts[k], matching)
  THEN ts[CHOOSE k \in 1..Len(ts) :
            /\ In(ts[k], matching)
            /\ \A j \in 1..(k - 1) : ~In(ts[j], matching)]
  ELSE None

\* matched_ticker_str or "/".join(matching) or UNKNOWN_TICKER_PLACEHOLDER
matched_ticker_str(ts, matching) ==
  Or(Or(first_match(ts, matching), join(<<"/">>, matching)),
     UNKNOWN_TICKER_PLACEHOLDER)

\* the if tickers: ... continue chain: is the item discarded?
skipped(ts, matching, matched) ==
  /\ ts # <<>>
  /\ \/ matching = <<>>
     \/ matched = UNKNOWN_TICKER_PLACEHOLDER
     \/ ~In(matched, ts)

\* i.get(key): the child's text or None (i a dict)
top_get(i, key) == IF key \in i.item.top THEN FieldValue(key) ELSE None

\* the xbrl_files value: with files_urls_as_text, the comprehension over
\* files_urls and unpack_singleton_list; raises is the comprehension failing
\* (None is not iterable; the elements of a dict are its keys, strs without .get)
xbrl_files(i, as_text) ==
  LET files_urls == safe_get_files(i)
  IN IF ~as_text THEN [raises |-> FALSE, value |-> files_urls]
     ELSE IF files_urls.type # "list" THEN [raises |-> TRUE, value |-> FilesNone]
     ELSE [raises |-> FALSE, value |-> unpack_singleton_list(files_urls.val)]

\* the parsed_line dict
parsed_line(i, cik, trimmed, matched, files) ==
  [company_name |-> safe_get(i, "edgar:companyName"),
   cik |-> cik,
   trimmed_cik |-> trimmed,
   ticker |-> matched,
   published_date |-> top_get(i, "pubDate"),
   title |-> top_get(i, "title"),
   link |-> top_get(i, "link"),
   description |-> top_get(i, "description"),
   form |-> safe_get(i, "edgar:formType"),
   filing_date |-> safe_get(i, "edgar:filingDate"),
   file_number |-> safe_get(i, "edgar:fileNumber"),
   accession_number |-> safe_get(i, "edgar:accessionNumber"),
   acceptance_date |-> safe_get(i, "edgar:acceptanceDatetime"),
   period |-> safe_get(i, "edgar:period"),
   assistant_director |-> safe_get(i, "edgar:assistantDirector"),
   assigned_sic |-> safe_get(i, "edgar:assignedSic"),
   fiscal_year_end |-> safe_get(i, "edgar:fiscalYearEnd"),
   xbrl_files |-> files]

\* The body of the loop for the value i: "skip" (continue), "yield" (line is
\* the parsed line) or "raise" (i.get on a value that is no dict, or the
\* comprehension over files_urls).
loop_body(i, ts, m, as_text) ==
  LET cik == safe_get(i, "edgar:cikNumber")
      trimmed == trimmed_cik(cik)
      matching == matching_tickers_for_item_cik(m, trimmed)
      matched == matched_ticker_str(ts, matching)
      files == xbrl_files(i, as_text)
  IN IF skipped(ts, matching, matched) THEN [kind |-> "skip", line |-> <<>>]
     ELSE IF i.type # "dict" \/ files.raises THEN [kind |-> "raise", line |-> <<>>]
     ELSE [kind |-> "yield",
           line |-> parsed_line(i, cik, trimmed, matched, files.value)]

\* emit with the new line put first
emit_first(lines, line) == <<line>> \o lines

\* the generator hands a line to its consumer
emit(lines, line) == Append(lines, line)

\* First next() on the generator: line 81, the items of the response.
ParseResponse ==
  /\ pc = "start"
  /\ LET r == xmltodict_items(response)
     IN /\ items' = r.seq
        /\ pc' = IF r.raises THEN "raised" ELSE "loop"
  /\ idx' = 1
  /\ UNCHANGED <<tickers, tickers_mapping, files_urls_as_text, response,
                 records, origin>>
  /\ UNCHANGED fetchVars

\* One iteration of the for loop, lines 82-162.
ProcessItem ==
  /\ pc = "loop"
  /\ idx <= Len(items)
  /\ LET r == loop_body(items[idx], tickers, tickers_mapping, files_urls_as_text)
     IN /\ records' = IF r.kind = "yield" THEN emit(records, r.line) ELSE records
        /\ origin' = IF r.kind = "yield" THEN Append(origin, idx) ELSE origin
        /\ pc' = IF r.kind = "raise" THEN "raised" ELSE "loop"
  /\ idx' = idx + 1
  /\ UNCHANGED <<tickers, tickers_mapping, files_urls_as_text, response, items>>
  /\ UNCHANGED fetchVars

\* The loop is over: the generator is exhausted.
Exhaust ==
  /\ pc = "loop"
  /\ idx > Len(items)
  /\ pc' = "done"
  /\ UNCHANGED <<tickers, tickers_mapping, files_urls_as_text, response, items,
                 idx, records, origin>>
  /\ UNCHANGED fetchVars

Next == ParseResponse \/ ProcessItem \/ Exhaust

-----------------------------------------------------------------------------
(* _fetch_company_tickers and the lines of fetch_rss_feed around it *)

\* str(n) of an int n >= 0: json.dumps writes the int keys of a dict as strs
RECURSIVE IntToStr(_)
IntToStr(n) ==
  IF n < 10 THEN <<Digit[n + 1]>>
  ELSE IntToStr(n \div 10) \o <<Digit[(n % 10) + 1]>>

\* group_step with a CIK seen before getting a fresh one-element list
group_step_overwrite(acc, company_data) ==
  [c \in DOMAIN acc \cup {company_data.cik_str} |->
     IF c = company_data.cik_str THEN <<company_data.ticker>> ELSE acc[c]]

\* One pass of the for loop of line 40: a CIK seen for the first time gets a
\* one-element list, a CIK seen before has the ticker appended.
group_step(acc, company_data) ==
  IF company_data.cik_str \notin DOMAIN acc
  THEN [c \in DOMAIN acc \cup {company_data.cik_str} |->
          IF c = company_data.cik_str THEN <<company_data.ticker>> ELSE acc[c]]
  ELSE [acc EXCEPT ![company_data.cik_str] = Append(@, company_data.ticker)]

RECURSIVE group(_, _)
\* the loop over mapping.items(), in the order of the JSON object
group(acc, dataset) ==
  IF dataset = <<>> THEN acc
  ELSE group(group_step(acc, Head(dataset)), Tail(dataset))

\* json.load of what json.dumps(cik_to_company_mapping, sort_keys=True) wrote:
\* the same lists under the CIKs as strs
json_dumps_load(g) ==
  [k \in {IntToStr(c) : c \in DOMAIN g} |->
     g[CHOOSE c \in DOMAIN g : IntToStr(c) = k]]

\* needs_download without the test that the file exists
needs_download_on_refresh_only(exists, refresh_tickers_mapping) ==
  refresh_tickers_mapping

\* line 32: is the tickers file downloaded?
needs_download(exists, refresh_tickers_mapping) ==
  ~exists \/ refresh_tickers_mapping

\* history of an invocation: its argument, whether the file existed when it
\* began, whether requests.get was called for the tickers file, whether the
\* file was written, whether the file is another than before, and whether
\* line 195 loaded it
Call(refresh, existed, requested, written, changed, loaded) ==
  [called |-> TRUE, refresh |-> refresh, existed |-> existed,
   requested |-> requested, written |-> written, changed |-> changed,
   loaded |-> loaded]

\* no invocation yet
NoCall == [Call(FALSE, FALSE, FALSE, FALSE, FALSE, FALSE) EXCEPT !.called = FALSE]

\* fetch_rss_feed(tickers, output_file, refresh_tickers_mapping), lines 179-195:
\* _fetch_company_tickers and the load of the tickers file.  http_ok is
\* whether the download, when there is one, answers (raise_for_status does
\* not raise) with dataset for its JSON.  The feed itself is then fetched and
\* parsed: parse_rss_feed_data, the steps ParseResponse, ProcessItem, Exhaust.
FetchRssFeed(refresh_tickers_mapping, http_ok, dataset) ==
  LET download == needs_download(cache_exists, refresh_tickers_mapping)
      written == download /\ http_ok
      raised == download /\ ~http_ok
      grouped == group(<<>>, dataset)
  IN /\ mapping' = IF written THEN dataset ELSE mapping
     /\ cik_to_company_mapping' =
          IF written THEN grouped ELSE cik_to_company_mapping
     /\ cache_content' =
          IF written THEN json_dumps_load(grouped) ELSE cache_content
     /\ cache_exists' = (cache_exists \/ written)
     /\ cik_to_ticker_mapping' =
          IF raised THEN cik_to_ticker_mapping ELSE cache_content'
     /\ last' = Call(refresh_tickers_mapping, cache_exists, download, written,
                     cache_exists' # cache_exists \/ cache_content' # cache_content,
                     ~raised)
     /\ UNCHANGED parseVars

\* the companies of the SEC file: CIKs as ints
Companies == [cik_str : {1, 10}, ticker : PlainTickers]

Datasets == SeqsOf(Companies, 0, MaxDataset)

InitFetch ==
  /\ cache_exists = FALSE
  /\ cache_content = <<>>
  /\ mapping = <<>>
  /\ cik_to_company_mapping = <<>>
  /\ cik_to_ticker_mapping = <<>>
  /\ last = NoCall
  /\ tickers = <<>>
  /\ tickers_mapping = <<>>
  /\ files_urls_as_text = FALSE
  /\ response = <<>>
  /\ items = <<>>
  /\ idx = 1
  /\ records = <<>>
  /\ origin = <<>>
  /\ pc = "start"

\* an invocation; a response is drawn only when a request is made
NextFetch ==
  \E refresh \in BOOLEAN :
    \E http_ok \in (IF needs_download(cache_exists, refresh) THEN BOOLEAN ELSE {TRUE}) :
      \E dataset \in (IF needs_download(cache_exists, refresh) /\ http_ok
                      THEN Datasets ELSE {<<>>}) :
        FetchRssFeed(refresh, http_ok, dataset)

SpecFetch == InitFetch /\ [][NextFetch]_vars

-----------------------------------------------------------------------------
(* Inputs of parse_rss_feed_data *)

\* edgar:cikNumber texts: they trim to "1", "2" and "1"
CikPadded1 == <<"0", "1">>
CikPadded2 == <<"0", "2">>
CikBare1 == <<"1">>
Key1 == <<"1">>

\* the URL of the k-th <edgar:xbrlFile>
Url(k) == <<"u", Digit[k + 1]>>

\* the URLs of an item with n files
Urls(n) == [k \in 1..n |-> Url(k)]

\* documents of 0..MaxFeed items drawn from the set its
Feeds(its) == SeqsOf(its, 0, MaxFeed)

\* the state a call parse_rss_feed_data(response, tickers, tickers_mapping,
\* files_urls_as_text) starts in; the variables of fetch_rss_feed are idle
InitParse(filters, mappings, docs, flags) ==
  /\ tickers \in filters
  /\ tickers_mapping \in mappings
  /\ response \in docs
  /\ files_urls_as_text \in flags
  /\ items = <<>>
  /\ idx = 1
  /\ records = <<>>
  /\ origin = <<>>
  /\ pc = "start"
  /\ cache_exists = FALSE
  /\ cache_content = <<>>
  /\ mapping = <<>>
  /\ cik_to_company_mapping = <<>>
  /\ cik_to_ticker_mapping = <<>>
  /\ last = NoCall

\* Items of every shape: any of the children but the <title> may be missing.
ShapeItems ==
  {Item(top, nested, cik, Urls(n)) :
     top \in {TopKeys, {"title"}},
     nested \in {NestedKeys, {"edgar:companyName"}, {}},
     cik \in {None, CikPadded1, CikPadded2},
     n \in 0..MaxFiles}

Init ==
  InitParse({<<>>, <<TickerA>>},
            {<<>>, Key1 :> <<TickerA>>},
            Feeds(ShapeItems),
            BOOLEAN)

Spec == Init /\ [][Next]_vars

\* Well-formed items (every child present, two files) that differ in their CIK.
MatchItems ==
  {Item(TopKeys, NestedKeys, cik, Urls(2)) :
     cik \in {None, CikPadded1, CikPadded2}}

\* Every filter list and every ticker list of the mapping over the ticker strings.
InitMatch ==
  InitParse(SeqsOf(FilterTickers, 0, MaxFilter),
            {<<>>} \cup {Key1 :> l : l \in SeqsOf(MappingTickers, 1, MaxTickersPerCik)},
            Feeds(MatchItems),
            BOOLEAN)

SpecMatch == InitMatch /\ [][Next]_vars

\* The same with ticker strings that may be empty.
InitEmptyTicker ==
  InitParse(SeqsOf(FilterTickersWithEmpty, 0, MaxFilter),
            {<<>>} \cup {Key1 :> l :
                           l \in SeqsOf(MappingTickersWithEmpty, 1, MaxTickersPerCik)},
            Feeds(MatchItems),
            BOOLEAN)

SpecEmptyTicker == InitEmptyTicker /\ [][Next]_vars

\* Items with two files that differ in their CIK and in their <title>.
OrderItems ==
  {Item(top, NestedKeys, cik, Urls(2)) :
     top \in {TopKeys, TopKeys \ {"title"}},
     cik \in {None, CikPadded1, CikPadded2, CikBare1}}

InitOrder ==
  InitParse(SeqsOf(PlainTickers, 0, MaxFilter),
            {<<>>, Key1 :> <<TickerA>>, Key1 :> <<TickerB, TickerA>>},
            Feeds(OrderItems),
            BOOLEAN)

SpecOrder == InitOrder /\ [][Next]_vars

-----------------------------------------------------------------------------
(* Properties of parse_rss_feed_data *)

\* the loop has run its body for position k of items
Processed(k) == pc # "start" /\ k \in 1..Len(items) /\ k < idx

\* a line was yielded for position k of items
EmittedFrom(k) == \E j \in 1..Len(origin) : origin[j] = k

\* the tickers the mapping holds for the trimmed CIK of i
MatchingOf(i) ==
  matching_tickers_for_item_cik(tickers_mapping,
                                trimmed_cik(safe_get(i, "edgar:cikNumber")))

\* the positions of the filter list whose ticker is one of the tickers of i
FilterMembers(i) == {t \in 1..Len(tickers) : In(tickers[t], MatchingOf(i))}

\* the tickers at these positions
MemberTickers(i) == {tickers[t] : t \in FilterMembers(i)}

Min(S) == CHOOSE x \in S : \A y \in S : x <= y

\* C1: with a non-empty filter list, a line is yielded for an entry only if
\* some ticker of the filter list is one of the tickers the mapping holds for
\* the entry's trimmed CIK.
C1_EmittedOnlyOnExactMatch ==
  tickers # <<>> =>
    \A j \in 1..Len(origin) : FilterMembers(items[origin[j]]) # {}

\* C2: when several tickers of the filter list are tickers of the entry, the
\* yielded line's ticker is the first of them in filter-list order.
C2_FirstInFilterOrder ==
  \A j \in 1..Len(origin) :
    Cardinality(MemberTickers(items[origin[j]])) >= 2
      => records[j].ticker = tickers[Min(FilterMembers(items[origin[j]]))]

\* C9: with a non-empty filter list, every entry one of whose tickers is in
\* the filter list is kept: once the loop has passed it, its line was yielded.
C9_ExactMatchIsKept ==
  tickers # <<>> =>
    \A k \in 1..Len(items) :
      (Processed(k) /\ items[k].type = "dict" /\ FilterMembers(items[k]) # {})
        => EmittedFrom(k)

\* the loop body keeps i: none of the three continue branches is taken
Kept(i) ==
  ~skipped(tickers, MatchingOf(i), matched_ticker_str(tickers, MatchingOf(i)))

\* the line yielded for position k of items
LineFrom(k) == records[CHOOSE j \in 1..Len(origin) : origin[j] = k]

\* the generator has stopped: exhausted, or an exception left it
Stopped == pc \in {"done", "raised"}

\* C3: with an empty filter list every entry of the feed is emitted, with
\* the "/"-join of its tickers when the mapping holds some for its trimmed
\* CIK and the placeholder otherwise; the ticker is never empty or None.
C3_EmptyFilterEmitsAll ==
  (tickers = <<>> /\ Stopped) =>
    /\ Len(records) = Len(response)
    /\ \A k \in 1..Len(response) :
         LET matching == MatchingOf(PyDict(response[k]))
         IN /\ records[k].ticker =
                 (IF matching # <<>> THEN join(<<"/">>, matching)
                  ELSE UNKNOWN_TICKER_PLACEHOLDER)
            /\ Truthy(records[k].ticker)

\* C4: the yielded lines are those of a subsequence of the entries, in feed
\* order: line j comes from position origin[j] of the items, the positions
\* increase strictly (so no entry yields two lines), each is one the loop has
\* passed, and line j is the parsed line of that entry.
C4_SubsequenceInFeedOrder ==
  /\ Len(origin) = Len(records)
  /\ \A j \in 1..Len(origin) :
       /\ Processed(origin[j])
       /\ Len(response) >= 2
       /\ items[origin[j]] = PyDict(response[origin[j]])
       /\ Kept(items[origin[j]])
       /\ records[j] =
            loop_body(items[origin[j]], tickers, tickers_mapping,
                      files_urls_as_text).line
  /\ \A j1, j2 \in 1..Len(origin) : j1 < j2 => origin[j1] < origin[j2]

\* C4's case: two entries that differ were both kept.
C4_Witness ==
  /\ pc = "done"
  /\ Len(records) = 2
  /\ records[1] # records[2]
  /\ tickers # <<>>

\* C5: a feed of one <item> is processed as a list of that one item: the
\* lines yielded are those the loop body gives for the item as a dict, and
\* the generator raises only if that body does.
C5_SingleItemAsList ==
  (Len(response) = 1 /\ Stopped) =>
    LET r == loop_body(ElementValue(response[1]), tickers, tickers_mapping,
                       files_urls_as_text)
    IN /\ records = (IF r.kind = "yield" THEN <<r.line>> ELSE <<>>)
       /\ pc = "raised" <=> r.kind = "raise"

\* the record field that holds each child of <edgar:xbrlFiling>
NestedField ==
  [company_name |-> "edgar:companyName", form |-> "edgar:formType",
   filing_date |-> "edgar:filingDate", file_number |-> "edgar:fileNumber",
   accession_number |-> "edgar:accessionNumber",
   acceptance_date |-> "edgar:acceptanceDatetime", period |-> "edgar:period",
   assistant_director |-> "edgar:assistantDirector",
   assigned_sic |-> "edgar:assignedSic",
   fiscal_year_end |-> "edgar:fiscalYearEnd"]

\* the record field that holds each child of <item>
TopField ==
  [published_date |-> "pubDate", title |-> "title", link |-> "link",
   description |-> "description"]

\* C6: a kept entry with any of its fields missing, the file list included,
\* still yields a line, in which each missing field is None; nothing raises.
\* (Entries with exactly one file are C7's.)
C6_MissingFieldsDegrade ==
  \A k \in 1..Len(items) :
    (/\ Processed(k)
     /\ items[k].type = "dict"
     /\ Len(items[k].item.files) # 1
     /\ Kept(items[k]))
      => /\ pc # "raised"
         /\ EmittedFrom(k)
         /\ \A f \in DOMAIN NestedField :
              NestedField[f] \notin items[k].item.nested => LineFrom(k)[f] = None
         /\ \A f \in DOMAIN TopField :
              TopField[f] \notin items[k].item.top => LineFrom(k)[f] = None
         /\ items[k].item.cik = None => LineFrom(k).cik = None
         /\ items[k].item.files = <<>> => LineFrom(k).xbrl_files = FilesNone

\* C7: for a kept entry with files, xbrl_files is, with files_urls_as_text,
\* a str: the URL itself when there is one file, the URLs joined with
\* newlines in document order when there are several; without the flag it is
\* the raw value.
C7_XbrlFilesAsText ==
  \A k \in 1..Len(items) :
    (/\ Processed(k)
     /\ items[k].type = "dict"
     /\ Len(items[k].item.files) >= 1
     /\ Kept(items[k]))
      => /\ EmittedFrom(k)
         /\ LET urls == items[k].item.files
            IN LineFrom(k).xbrl_files =
                 (IF files_urls_as_text
                  THEN (IF Len(urls) = 1 THEN FilesStr(urls[1])
                        ELSE FilesStr(join(<<"\n">>, urls)))
                  ELSE safe_get_files(items[k]))

-----------------------------------------------------------------------------
(* Properties of _fetch_company_tickers and fetch_rss_feed *)

\* the CIKs that occur in the downloaded dataset
DatasetCiks == {mapping[k].cik_str : k \in 1..Len(mapping)}

\* the tickers of the dataset's companies with CIK c, in dataset order
DatasetTickers(c) ==
  LET sel == SelectSeq(mapping, LAMBDA company : company.cik_str = c)
  IN [k \in 1..Len(sel) |-> sel[k].ticker]

\* C8: the grouping holds exactly the CIKs of the dataset, each with the
\* tickers of the companies that carry it, in the order met, one element per
\* occurrence.
C8_GroupsTickersByCik ==
  /\ DOMAIN cik_to_company_mapping = DatasetCiks
  /\ \A c \in DatasetCiks : cik_to_company_mapping[c] = DatasetTickers(c)

\* C8's case: a company occurs twice, with another CIK in between.
C8_Witness ==
  /\ last.written
  /\ Len(mapping) = 3
  /\ mapping[1] = mapping[3]
  /\ mapping[2].cik_str # mapping[1].cik_str
  /\ cik_to_company_mapping[mapping[1].cik_str]
       = <<mapping[1].ticker, mapping[1].ticker>>

\* C10 as stated: an invocation downloads and writes the tickers file exactly
\* when the file does not exist or a refresh is asked for.
C10_WritesIffMissingOrRefresh ==
  last.called => (last.written <=> (~last.existed \/ last.refresh))

\* C10 amended: an invocation requests the download exactly when the file
\* does not exist or a refresh is asked for, and writes the file exactly when
\* that download succeeds; a written file exists and holds the grouping of
\* the dataset; the mapping is loaded only from a file that exists; an
\* invocation that requests nothing leaves the file as it was and loads it; a
\* failed download leaves the file as it was and loads nothing.
C10_RequestsIffMissingOrRefresh ==
  last.called =>
    /\ last.requested <=> (~last.existed \/ last.refresh)
    /\ last.written => last.requested
    /\ last.written =>
         /\ cache_exists
         /\ cache_content = json_dumps_load(cik_to_company_mapping)
    /\ last.loaded => (cache_exists /\ cik_to_ticker_mapping = cache_content)
    /\ ~last.requested => (~last.changed /\ last.loaded)
    /\ (last.requested /\ ~last.written) => (~last.changed /\ ~last.loaded)
    /\ (last.requested /\ last.loaded) => last.written

\* C10's case: an invocation without refresh found the file a download had
\* written, and loaded it.
C10_Witness ==
  /\ last.called
  /\ last.existed
  /\ ~last.refresh
  /\ ~last.requested
  /\ last.loaded
  /\ cik_to_ticker_mapping # <<>>

====
